---- MODULE Spec2Model ----
(***************************************************************************)
(* loves-to.dev: the DNS reconciler (scripts/deploy.js) and the validation *)
(* pass that gates it (scripts/validate.js, run by the workflow            *)
(* validate-and-deploy.yml).                                               *)
(*                                                                         *)
(* Strings are sequences of one-character strings, so that endsWith,       *)
(* includes and template concatenation are computed, not assumed.          *)
(***************************************************************************)
EXTENDS Integers, Sequences, FiniteSets, TLC

VARIABLES
    files,            \* domains/<label>.json : label -> file content or NoFile
    reserved,         \* config/reserved.json : list of labels
    reservedDir,      \* domains/reserved/*.json : set of labels
    zone,             \* provider state: record id -> DNS record or NoRec
    nextId,           \* next record id the provider hands out
    clock,            \* new Date() of the running process
    pc,               \* position of the deployDNS process
    inputs,           \* the declaration files and reserved list the run read
    fetched,          \* getExistingRecords: outcome of the listing request
    records,          \* getExistingRecords: the listing the provider returned
    existingRecords,  \* deployDNS: result of getExistingRecords()
    domainFiles,      \* deployDNS: result of getDomainFiles(config)
    di,               \* deployDNS: position of the loop over domainFiles
    ei,               \* deployDNS: position of the loop over existingRecords
    created,          \* deployDNS: counter
    updated,          \* deployDNS: counter
    deleted,          \* deployDNS: counter
    calls,            \* provider write calls issued by the current run
    output,           \* what the current run printed last: summary or error
    exitCode,         \* process exit code of the current run
    runs,             \* number of runs started
    history,          \* the snapshot of the run before the current one, if any
    validation,       \* workflow: conclusion of job validate ("none": not run)
    report,           \* workflow: what job validate reported
    script,           \* validator: which of the repository's validate scripts runs
    dir,              \* validator: readdirSync('domains'), as <<[name, content]>>
    trusted,          \* validator: config/trusted.json
    prAuthor,         \* validator: GITHUB_ACTOR || PR_AUTHOR, <<>> when unset
    vpc,              \* validateAllDomains: position of the process
    fi,               \* validateAllDomains: position of files.forEach
    results,          \* validateAllDomains: result of validateDomainFile per file
    foundDuplicates,  \* validateAllDomains: const duplicates
    limitViolations,  \* validateAllDomains: const limitViolations
    hasErrors,        \* validateAllDomains: let hasErrors
    validCount,       \* validateAllDomains: let validCount
    stages,           \* validateAllDomains: the checks made so far, in order
    validateExit      \* exit code of the validator process

vars == <<files, reserved, reservedDir, zone, nextId, clock, pc,
          inputs, fetched, records, existingRecords, domainFiles, di, ei, created, updated,
          deleted, calls, output, exitCode, runs, history, validation, report,
          script, dir, trusted, prAuthor, vpc, fi, results, foundDuplicates,
          limitViolations, hasErrors, validCount, stages, validateExit>>

envVars == <<files, reserved, reservedDir>>
\* the validator process of the third specification and its inputs
valVars == <<script, dir, trusted, prAuthor, vpc, fi, results, foundDuplicates,
             limitViolations, hasErrors, validCount, stages, validateExit>>
runVars == <<inputs, fetched, records, existingRecords, domainFiles, di, ei, created, updated, deleted,
             calls, output, exitCode>>

(***************************************************************************)
(* Bounds                                                                  *)
(***************************************************************************)
MaxRuns == 2
MaxId == 4

(***************************************************************************)
(* Strings                                                                 *)
(***************************************************************************)
EndsWith(s, suffix) ==
    /\ Len(s) >= Len(suffix)
    /\ SubSeq(s, Len(s) - Len(suffix) + 1, Len(s)) = suffix

Includes(s, part) ==
    \E k \in 0..(Len(s) - Len(part)) : SubSeq(s, k + 1, k + Len(part)) = part

DOMAIN_NAME == <<"z">>
Dot == <<".">>

Labels == {<<"a">>, <<"b">>}
LabelOrder == <<(<<"a">>), (<<"b">>)>>

Fqdn(label) == label \o Dot \o DOMAIN_NAME
ReservedTarget == <<"r">> \o Dot \o DOMAIN_NAME

T1 == <<"x", ".", "i">>
T2 == <<"y", ".", "i">>

\* 'Managed by loves-to.dev', abbreviated to one token
Marker == <<"M">>
UserType == <<"u">>
ReservedType == <<"r">>
Digit == <<"1", "2", "3", "4", "5", "6", "7", "8", "9">>
\* new Date().toISOString() of a process started at `time`
ToISOString(time) == <<Digit[time]>>
ManagedComment(type, time) ==
    Marker \o <<"(">> \o type \o <<")">> \o ToISOString(time)

(***************************************************************************)
(* The environment: declaration files, configuration, provider zone        *)
(***************************************************************************)
NoFile == [exists |-> FALSE, parses |-> FALSE, hasOwner |-> FALSE, username |-> <<>>,
           email |-> <<>>, hasRecords |-> FALSE, cname |-> <<>>, extra |-> <<>>]

GoodEmail == <<"e", "@", "m", ".", "c">>
BadEmail == <<"e", "@", "m">>

\* a well-formed declaration of `user` with target t
Decl(user, mail, t) ==
    [exists |-> TRUE, parses |-> TRUE, hasOwner |-> TRUE, username |-> user,
     email |-> mail, hasRecords |-> TRUE, cname |-> t, extra |-> <<>>]
\* a file JSON.parse rejects
Unparsable ==
    [exists |-> TRUE, parses |-> FALSE, hasOwner |-> FALSE, username |-> <<>>,
     email |-> <<>>, hasRecords |-> FALSE, cname |-> <<>>, extra |-> <<>>]
\* a JSON file without a "records" object
NoRecords(user) ==
    [exists |-> TRUE, parses |-> TRUE, hasOwner |-> TRUE, username |-> user,
     email |-> GoodEmail, hasRecords |-> FALSE, cname |-> <<>>, extra |-> <<>>]

\* the files deploy.js tells apart: it reads records.CNAME only
DeployChoices(label) ==
    { Decl(label, GoodEmail, T1), Decl(label, GoodEmail, T2),
      Unparsable, NoRecords(label) }

\* the files validate.js tells apart as well
FileChoices(label) ==
    DeployChoices(label) \cup { Decl(label, BadEmail, T1) }

ReservedLists == { <<>>, <<(<<"a">>)>> }

NoComment == <<>>
OtherComment == <<"h">>
ZoneNames == { Fqdn(<<"a">>), Fqdn(<<"b">>), DOMAIN_NAME, <<"a">> \o Dot \o <<"q">> }
ZoneContents == { T1, ReservedTarget }
ZoneComments == { OtherComment, ManagedComment(UserType, 1) }

\* ttl: 300 of the bodies of POST and PUT (deploy.js 151, 171)
TTL == 300
\* the ttl values a record of the zone may have: 300, or 1 (automatic)
ZoneTtls == {TTL, 1}

Record(id, name, content, comment) ==
    [id |-> id, name |-> name, content |-> content, comment |-> comment, ttl |-> TTL]

\* The provider keeps at most one CNAME record per name.
UniqueNames(z) == \A r1, r2 \in z : r1.name = r2.name => r1 = r2

\* no record, any one record, or a managed record of a.z next to any other one
InitZones ==
    {{}}
    \cup { {Record(1, n, c, m)} : n \in ZoneNames, c \in ZoneContents, m \in ZoneComments }
    \cup { z \in { {Record(1, Fqdn(<<"a">>), c1, ManagedComment(UserType, 1)),
                    Record(2, n2, T1, m2)} :
                    c1 \in ZoneContents, n2 \in ZoneNames, m2 \in ZoneComments } :
            UniqueNames(z) }

\* the records of a set ordered by id, as the listing endpoint returns them
RECURSIVE ById(_)
ById(z) ==
    IF z = {} THEN <<>>
    ELSE LET r == CHOOSE x \in z : \A y \in z : x.id <= y.id
         IN <<r>> \o ById(z \ {r})

\* GET /zones/<id>/dns_records?type=CNAME (deploy.js 78): one request without
\* page or per_page parameter, of which cloudflareRequest returns result.result
\* (lines 61-69). The provider answers a listing request with one page; its
\* default page size, 100 records, stands here as 3.
PerPage == 3
ListRecords(z) ==
    LET all == ById(z)
    IN IF Len(all) <= PerPage THEN all ELSE SubSeq(all, 1, PerPage)

(***************************************************************************)
(* deploy.js: pure parts                                                   *)
(***************************************************************************)
\* loadConfig(): reserved and trusted lists
loadConfig == [reserved |-> reserved]

\* mutant: the filter without the ownership test
IsManagedSubdomain_NoMarker(record) ==
    /\ EndsWith(record.name, Dot \o DOMAIN_NAME)
    /\ record.name # DOMAIN_NAME

\* the filter of getExistingRecords (lines 81-85)
IsManagedSubdomain(record) ==
    /\ EndsWith(record.name, Dot \o DOMAIN_NAME)
    /\ record.name # DOMAIN_NAME
    /\ record.comment # NoComment
    /\ Includes(record.comment, Marker)

\* mutant: the listing returned as the provider sent it
getExistingRecords_Unfiltered(listing) == listing

getExistingRecords(listing) == SelectSeq(listing, IsManagedSubdomain)

\* the entry getDomainFiles pushes for a reserved name
ReservedEntry(subdomain) ==
    [username |-> subdomain, subdomain |-> subdomain \o Dot \o DOMAIN_NAME,
     target |-> ReservedTarget, type |-> ReservedType]

\* what the map callback returns when the try block throws
Null == [username |-> <<>>, subdomain |-> <<>>, target |-> <<>>, type |-> <<>>]

\* mutant: a file the try block cannot process is kept, without a target
FileEntry_Kept(label) ==
    [username |-> label, subdomain |-> label \o Dot \o DOMAIN_NAME,
     target |-> files[label].cname, type |-> UserType]

\* the entry getDomainFiles maps a file to (lines 110-125)
FileEntry(label) ==
    LET content == files[label] IN
    IF ~content.parses \/ ~content.hasRecords THEN Null
    ELSE [username |-> label, subdomain |-> label \o Dot \o DOMAIN_NAME,
          target |-> content.cname, type |-> UserType]

\* readdirSync(domainsDir).filter(.json): the labels that have a file, in
\* directory order
RECURSIVE Readdir(_)
Readdir(order) ==
    IF order = <<>> THEN <<>>
    ELSE (IF files[Head(order)].exists THEN <<Head(order)>> ELSE <<>>)
         \o Readdir(Tail(order))

RECURSIVE ReservedEntries(_)
ReservedEntries(list) ==
    IF list = <<>> THEN <<>>
    ELSE <<ReservedEntry(Head(list))>> \o ReservedEntries(Tail(list))

\* .map(file => ...).filter(Boolean)
RECURSIVE FileEntries(_)
FileEntries(names) ==
    IF names = <<>> THEN <<>>
    ELSE (IF FileEntry(Head(names)) = Null THEN <<>> ELSE <<FileEntry(Head(names))>>)
         \o FileEntries(Tail(names))

getDomainFiles(config) ==
    ReservedEntries(config.reserved) \o FileEntries(Readdir(LabelOrder))

\* mutant: the lookup made with a record's content as the key
ExistingMapHas_WrongKey(existing, name) ==
    \E n \in 1..Len(existing) : existing[n].content = name

\* existingMap (lines 213-216): forEach(set), so the last record of a name wins
ExistingMapHas(existing, name) == \E n \in 1..Len(existing) : existing[n].name = name
ExistingMapGet(existing, name) ==
    existing[CHOOSE n \in 1..Len(existing) :
        /\ existing[n].name = name
        /\ \A m \in (n + 1)..Len(existing) : existing[m].name # name]

\* mutant: desiredMap keyed by username instead of subdomain
DesiredMapHas_ByUsername(domains, name) ==
    \E n \in 1..Len(domains) : domains[n].username = name

\* desiredMap (lines 218-221), used only through has()
DesiredMapHas(domains, name) == \E n \in 1..Len(domains) : domains[n].subdomain = name

(***************************************************************************)
(* validate.js                                                             *)
(***************************************************************************)
LowerCase == {"a", "b", "c", "d", "e", "f", "g", "h", "i", "j", "k", "l", "m",
              "n", "o", "p", "q", "r", "s", "t", "u", "v", "w", "x", "y", "z"}
UpperCase == {"A", "B", "C", "D", "E", "F", "G", "H", "I", "J", "K", "L", "M",
              "N", "O", "P", "Q", "R", "S", "T", "U", "V", "W", "X", "Y", "Z"}
Digits == {"0", "1", "2", "3", "4", "5", "6", "7", "8", "9"}
WhiteSpace == {" ", "\t", "\n"}
MaxLabelLength == 63
MaxDomainLength == 253
MaxEmailLength == 254

\* getReservedUsernames(): the file names of domains/reserved/
getReservedUsernames == reservedDir

\* mutant: the hyphen rules left out
isValidUsername_NoHyphenRules(username) ==
    IF ~(Len(username) >= 1
         /\ \A n \in 1..Len(username) :
               username[n] \in LowerCase \cup Digits \cup {"-"})
    THEN [valid |-> FALSE, reason |-> "must be lowercase, alphanumeric, and may include hyphens only"]
    ELSE IF Len(username) < 1 \/ Len(username) > MaxLabelLength
    THEN [valid |-> FALSE, reason |-> "must be between 1 and 63 characters"]
    ELSE IF username \in getReservedUsernames
    THEN [valid |-> FALSE, reason |-> "is a reserved username"]
    ELSE [valid |-> TRUE, reason |-> ""]

\* isValidUsername (lines 23-53): the reason of the first rule broken
isValidUsername(username) ==
    IF ~(Len(username) >= 1
         /\ \A n \in 1..Len(username) :
               username[n] \in LowerCase \cup Digits \cup {"-"})
    THEN [valid |-> FALSE, reason |-> "must be lowercase, alphanumeric, and may include hyphens only"]
    ELSE IF username[1] = "-" \/ username[Len(username)] = "-"
    THEN [valid |-> FALSE, reason |-> "cannot start or end with hyphen"]
    ELSE IF Includes(username, <<"-", "-">>)
    THEN [valid |-> FALSE, reason |-> "cannot contain consecutive hyphens"]
    ELSE IF Len(username) < 1 \/ Len(username) > MaxLabelLength
    THEN [valid |-> FALSE, reason |-> "must be between 1 and 63 characters"]
    ELSE IF username \in getReservedUsernames
    THEN [valid |-> FALSE, reason |-> "is a reserved username"]
    ELSE [valid |-> TRUE, reason |-> ""]

\* isValidEmail (lines 58-61): /^[^\s@]+@[^\s@]+\.[^\s@]+$/ and length <= 254
isValidEmail(email) ==
    /\ \E at \in 2..Len(email) :
        /\ email[at] = "@"
        /\ \A n \in 1..Len(email) :
            /\ email[n] \notin WhiteSpace
            /\ n # at => email[n] # "@"
        /\ \E dot \in (at + 2)..(Len(email) - 1) : email[dot] = "."
    /\ Len(email) <= MaxEmailLength

\* one label of the domainRegex: [a-zA-Z0-9]([a-zA-Z0-9-]{0,61}[a-zA-Z0-9])?
IsDomainLabel(part) ==
    /\ Len(part) >= 1
    /\ Len(part) <= MaxLabelLength
    /\ part[1] \in LowerCase \cup UpperCase \cup Digits
    /\ part[Len(part)] \in LowerCase \cup UpperCase \cup Digits
    /\ \A n \in 1..Len(part) : part[n] \in LowerCase \cup UpperCase \cup Digits \cup {"-"}

\* isValidDomain (lines 66-82)
isValidDomain(domain) ==
    /\ Len(domain) >= 1
    /\ \A from, to \in 1..Len(domain) :
        (/\ from <= to
         /\ (from = 1 \/ domain[from - 1] = ".")
         /\ (to = Len(domain) \/ domain[to + 1] = ".")
         /\ \A n \in from..to : domain[n] # ".")
        => IsDomainLabel(SubSeq(domain, from, to))
    /\ domain[1] # "."
    /\ domain[Len(domain)] # "."
    /\ ~Includes(domain, <<".", ".">>)
    /\ Includes(domain, <<".">>)
    /\ Len(domain) <= MaxDomainLength

\* getAllDomainFiles (lines 183-199): filename and username are both the file
\* name without .json
RECURSIVE FileObjects(_)
FileObjects(names) ==
    IF names = <<>> THEN <<>>
    ELSE <<[filePath |-> <<"domains/">> \o Head(names) \o <<".json">>,
            filename |-> Head(names), username |-> Head(names)]>>
         \o FileObjects(Tail(names))
getAllDomainFiles == FileObjects(Readdir(LabelOrder))

\* Names every object literal {} inherits from Object.prototype: a lookup
\* obj[name] of such a name yields a function, which is truthy, before any
\* assignment to obj[name].
Constructor == <<"c", "o", "n", "s", "t", "r", "u", "c", "t", "o", "r">>
ObjectPrototype == { Constructor, <<"t", "o", "S", "t", "r", "i", "n", "g">> }
\* what `${value}` prints for such a function
NativeFunction == <<"function () { [native code] }">>

\* the forEach of checkForDuplicates (validate.js 91-100, part_000 126-138,
\* README 257-269) over pairs [key, filePath]: `seen[key]` is looked up in {}
\* and set to the path of the first file that finds it falsy
RECURSIVE DuplicateScan(_)
DuplicateScan(pairs) ==
    IF pairs = <<>> THEN <<>>
    ELSE LET file == pairs[Len(pairs)]
             before == SubSeq(pairs, 1, Len(pairs) - 1)
         IN DuplicateScan(before)
            \o (IF file.key \in ObjectPrototype
                THEN <<[username |-> file.key,
                        files |-> <<NativeFunction, file.filePath>>]>>
                ELSE IF \E n \in 1..Len(before) : before[n].key = file.key
                THEN <<[username |-> file.key,
                        files |-> <<before[CHOOSE n \in 1..Len(before) :
                                        /\ before[n].key = file.key
                                        /\ \A m \in 1..(n - 1) :
                                            before[m].key # file.key].filePath,
                                    file.filePath>>]>>
                ELSE <<>>)

RECURSIVE KeyedByUsername(_)
KeyedByUsername(list) ==
    IF list = <<>> THEN <<>>
    ELSE <<[key |-> Head(list).username, filePath |-> Head(list).filePath]>>
         \o KeyedByUsername(Tail(list))

\* checkForDuplicates (lines 87-103): keyed by file.username, the file name
checkForDuplicates(list) == DuplicateScan(KeyedByUsername(list))

\* template literals: `"${s}"` and array.join(', ')
Quote(s) == <<"\"">> \o s \o <<"\"">>
RECURSIVE Join(_)
Join(keys) ==
    IF keys = <<>> THEN <<>>
    ELSE IF Len(keys) = 1 THEN Head(keys)
    ELSE Head(keys) \o <<", ">> \o Join(Tail(keys))

\* the messages of validateDomainFile, as the template literals build them
InvalidJson == <<"Invalid JSON format: ", "SyntaxError">>
MissingOwner == <<"Missing or invalid \"owner\" object">>
MissingUsername == <<"Missing or invalid \"owner.username\" field">>
MissingEmail == <<"Missing or invalid \"owner.email\" field">>
MissingRecords == <<"Missing or invalid \"records\" object">>
MissingCname == <<"Missing or invalid \"records.CNAME\" field">>
FilenameMismatch(filename, username) ==
    <<"Filename ">> \o Quote(filename) \o <<" must match username ">> \o Quote(username)
InvalidUsername(username, reason) ==
    <<"Invalid username ">> \o Quote(username) \o <<": ", reason>>
InvalidEmail(email) == <<"Invalid email address: ">> \o email
InvalidCname(cname) == <<"Invalid CNAME domain: ">> \o cname

\* the owner.email block (validate.js 146-151, part_000 190-195, README 316-321)
EmailErrors(content) ==
    IF content.email = <<>> THEN <<MissingEmail>>
    ELSE IF ~isValidEmail(content.email) THEN <<InvalidEmail(content.email)>>
    ELSE <<>>

\* the records.CNAME block (validate.js 158-163, part_000 203-207, README 340-344)
CnameErrors(content) ==
    IF content.cname = <<>> THEN <<MissingCname>>
    ELSE IF ~isValidDomain(content.cname) THEN <<InvalidCname(content.cname)>>
    ELSE <<>>

\* mutant: the file name is never compared with owner.username
validateDomainFile_NoFilenameCheck(content, filename) ==
    IF ~content.parses THEN <<InvalidJson>>
    ELSE
        (IF ~content.hasOwner THEN <<MissingOwner>>
         ELSE (IF content.username = <<>>
               THEN <<MissingUsername>>
               ELSE (IF ~isValidUsername(content.username).valid
                     THEN <<InvalidUsername(content.username,
                                            isValidUsername(content.username).reason)>>
                     ELSE <<>>))
              \o EmailErrors(content))
        \o (IF ~content.hasRecords THEN <<MissingRecords>>
            ELSE CnameErrors(content))

\* validateDomainFile (lines 108-178): the list of errors of one file
validateDomainFile(content, filename) ==
    IF ~content.parses THEN <<InvalidJson>>
    ELSE
        (IF ~content.hasOwner THEN <<MissingOwner>>
         ELSE (IF content.username = <<>>
               THEN <<MissingUsername>>
               ELSE (IF filename # content.username
                     THEN <<FilenameMismatch(filename, content.username)>> ELSE <<>>)
                    \o (IF ~isValidUsername(content.username).valid
                        THEN <<InvalidUsername(content.username,
                                               isValidUsername(content.username).reason)>>
                        ELSE <<>>))
              \o EmailErrors(content))
        \o (IF ~content.hasRecords THEN <<MissingRecords>>
            ELSE CnameErrors(content))

\* validateAllDomains (lines 204-257): what the pass reported, and hasErrors
\* when the process ends
validateAllDomains ==
    LET list == getAllDomainFiles
        duplicates == IF list = <<>> THEN <<>> ELSE checkForDuplicates(list)
        errors == [label \in Labels |->
                     IF files[label].exists
                     THEN validateDomainFile(files[label], label) ELSE <<>>]
    IN [files |-> files, duplicates |-> duplicates, errors |-> errors,
        hasErrors |-> \/ duplicates # <<>>
                      \/ \E n \in 1..Len(list) : errors[list[n].filename] # <<>>]

\* the exit code of node scripts/validate.js
ValidateExitCode == IF validateAllDomains.hasErrors THEN 1 ELSE 0

(***************************************************************************)
(* The other validate scripts of the repository: unnamed/part_000 (reserved*)
(* and trusted lists from config/) and the one printed in README.md        *)
(* (requester identity, label taken from the file name)                    *)
(***************************************************************************)
InList(list, x) == \E n \in 1..Len(list) : list[n] = x

\* isValidSubdomain (README 152-176): the reason of the first rule broken
isValidSubdomain(subdomain) ==
    IF ~(Len(subdomain) >= 1
         /\ \A n \in 1..Len(subdomain) :
               subdomain[n] \in LowerCase \cup Digits \cup {"-"})
    THEN [valid |-> FALSE, reason |-> "must be lowercase, alphanumeric, and may include hyphens only"]
    ELSE IF subdomain[1] = "-" \/ subdomain[Len(subdomain)] = "-"
    THEN [valid |-> FALSE, reason |-> "cannot start or end with hyphen"]
    ELSE IF Includes(subdomain, <<"-", "-">>)
    THEN [valid |-> FALSE, reason |-> "cannot contain consecutive hyphens"]
    ELSE IF Len(subdomain) < 1 \/ Len(subdomain) > MaxLabelLength
    THEN [valid |-> FALSE, reason |-> "must be between 1 and 63 characters"]
    ELSE [valid |-> TRUE, reason |-> ""]

\* isValidUsername of part_000 (lines 35-59): the same four rules, and no
\* reserved check
isValidUsername_part000(username) == isValidSubdomain(username)

MaxGitHubLength == 39
\* isValidGitHubUsername (README 181-190):
\* /^[a-zA-Z0-9]([a-zA-Z0-9-]{0,37}[a-zA-Z0-9])?$/
isValidGitHubUsername(username) ==
    IF /\ Len(username) >= 1
       /\ Len(username) <= MaxGitHubLength
       /\ username[1] \in LowerCase \cup UpperCase \cup Digits
       /\ username[Len(username)] \in LowerCase \cup UpperCase \cup Digits
       /\ \A n \in 1..Len(username) :
            username[n] \in LowerCase \cup UpperCase \cup Digits \cup {"-"}
    THEN [valid |-> TRUE, reason |-> ""]
    ELSE [valid |-> FALSE, reason |-> "must be a valid GitHub username"]

UsernameReserved(username) == <<"Username ">> \o Quote(username) \o <<" is reserved">>
SubdomainReserved(subdomain) == <<"Subdomain ">> \o Quote(subdomain) \o <<" is reserved">>
InvalidGitHubUsername(username, reason) ==
    <<"Invalid GitHub username ">> \o Quote(username) \o <<": ", reason>>
InvalidSubdomain(subdomain, reason) ==
    <<"Invalid subdomain name ">> \o Quote(subdomain) \o <<": ", reason>>
SecurityViolation(username, author) ==
    <<"Security violation: GitHub username ">> \o Quote(username)
    \o <<" doesn't match PR author ">> \o Quote(author)
    \o <<". You can only register domains for your own GitHub account.">>
OnlyCname(invalidRecords) ==
    <<"Only CNAME records are supported. Invalid records: ">> \o Join(invalidRecords)

\* the records block of part_000 (198-217) and README (335-354)
RecordsErrors(content) ==
    IF ~content.hasRecords THEN <<MissingRecords>>
    ELSE CnameErrors(content)
         \o (IF Len(content.extra) > 0 THEN <<OnlyCname(content.extra)>> ELSE <<>>)

\* validateDomainFile of part_000 (lines 146-232)
validateDomainFile_part000(content, filename, config) ==
    IF ~content.parses THEN <<InvalidJson>>
    ELSE
        (IF ~content.hasOwner THEN <<MissingOwner>>
         ELSE (IF content.username = <<>>
               THEN <<MissingUsername>>
               ELSE (IF filename # content.username
                     THEN <<FilenameMismatch(filename, content.username)>> ELSE <<>>)
                    \o (IF ~isValidUsername_part000(content.username).valid
                        THEN <<InvalidUsername(content.username,
                                   isValidUsername_part000(content.username).reason)>>
                        ELSE <<>>)
                    \o (IF InList(config.reserved, content.username)
                        THEN <<UsernameReserved(content.username)>> ELSE <<>>))
              \o EmailErrors(content))
        \o RecordsErrors(content)

\* validateDomainFile of README.md (lines 277-369)
validateDomainFile_README(content, subdomain, config, author) ==
    IF ~content.parses THEN <<InvalidJson>>
    ELSE
        (IF ~content.hasOwner THEN <<MissingOwner>>
         ELSE (IF content.username = <<>>
               THEN <<MissingUsername>>
               ELSE (IF ~isValidGitHubUsername(content.username).valid
                     THEN <<InvalidGitHubUsername(content.username,
                                isValidGitHubUsername(content.username).reason)>>
                     ELSE <<>>)
                    \o (IF author # <<>> /\ content.username # author
                        THEN <<SecurityViolation(content.username, author)>>
                        ELSE <<>>))
              \o EmailErrors(content))
        \o (IF ~isValidSubdomain(subdomain).valid
            THEN <<InvalidSubdomain(subdomain, isValidSubdomain(subdomain).reason)>>
            ELSE <<>>)
        \o (IF InList(config.reserved, subdomain)
            THEN <<SubdomainReserved(subdomain)>> ELSE <<>>)
        \o RecordsErrors(content)

(***************************************************************************)
(* The provider, as the calls of deploy.js use it                          *)
(***************************************************************************)
\* POST /dns_records (lines 147-153): a CNAME cannot be added at a name that
\* already holds a record
CanCreate(name) == (\A r \in zone : r.name # name) /\ nextId <= MaxId
AfterCreate(name, content, type) ==
    zone \cup {Record(nextId, name, content, ManagedComment(type, clock))}

\* PUT /dns_records/<id> (lines 167-173)
CanWrite(id) == \E r \in zone : r.id = id
AfterUpdate(id, name, content, type) ==
    {r \in zone : r.id # id}
    \cup {Record(id, name, content, ManagedComment(type, clock))}

\* DELETE /dns_records/<id> (line 182)
AfterDelete(id) == {r \in zone : r.id # id}

IsTagged(id) == \E r \in zone : r.id = id /\ Includes(r.comment, Marker)

\* one entry of the log of write calls
Call(op, id, name, content, ok) ==
    [op |-> op, id |-> id, name |-> name, content |-> content, ok |-> ok,
     tagged |-> IsTagged(id)]

(***************************************************************************)
(* deployDNS                                                               *)
(***************************************************************************)
NoOutput == [kind |-> "none"]
ErrorOutput == [kind |-> "error"]
\* mutant: the no-change count computed without the updated entries
Summary_Miscount ==
    [kind |-> "summary", created |-> created, updated |-> updated,
     deleted |-> deleted, unchanged |-> Len(domainFiles) - created]

Summary ==
    [kind |-> "summary", created |-> created, updated |-> updated,
     deleted |-> deleted, unchanged |-> Len(domainFiles) - created - updated]

Snapshot ==
    [files |-> inputs.files, reserved |-> inputs.reserved, calls |-> calls,
     existing |-> existingRecords, desired |-> domainFiles,
     output |-> output, exitCode |-> exitCode, zone |-> zone]

TypeOK ==
    /\ pc \in {"idle", "desired", "done", "failed"}
    /\ runs \in 0..MaxRuns
    /\ UniqueNames(zone)

NoReport ==
    [files |-> [label \in Labels |-> NoFile], duplicates |-> <<>>,
     errors |-> [label \in Labels |-> <<>>], hasErrors |-> FALSE]

\* the validator process before validateAllDomains() is called
ValidatorNotStarted ==
    /\ vpc = "start"
    /\ fi = 1
    /\ results = <<>>
    /\ foundDuplicates = <<>>
    /\ limitViolations = <<>>
    /\ hasErrors = FALSE
    /\ validCount = 0
    /\ stages = <<>>
    /\ validateExit = 0

InitWith(zones, reservedDirs, validated) ==
    /\ files \in [Labels -> {NoFile} \cup UNION {FileChoices(l) : l \in Labels}]
    /\ \A l \in Labels :
        files[l] \in {NoFile} \cup (IF validated THEN FileChoices(l) ELSE DeployChoices(l))
    /\ reserved \in ReservedLists
    /\ reservedDir \in reservedDirs
    /\ zone \in zones
    /\ nextId = Cardinality(zone) + 1
    /\ clock = 1
    /\ pc = "idle"
    /\ inputs = [files |-> files, reserved |-> reserved]
    /\ fetched = "none"
    /\ records = <<>>
    /\ existingRecords = <<>>
    /\ domainFiles = <<>>
    /\ di = 1
    /\ ei = 1
    /\ created = 0
    /\ updated = 0
    /\ deleted = 0
    /\ calls = <<>>
    /\ output = NoOutput
    /\ exitCode = 0
    /\ runs = 0
    /\ history = <<>>
    /\ validation = "none"
    /\ report = NoReport
    /\ script = "scripts/validate.js"
    /\ dir = <<>>
    /\ trusted = <<>>
    /\ prAuthor = <<>>
    /\ ValidatorNotStarted

\* node scripts/deploy.js started by hand, on any declaration directory
Init == InitWith(InitZones, {{}}, FALSE)

\* mutant: a catch block that reports the error and lets the run go on
Fail_Continue ==
    /\ pc' = pc
    /\ output' = ErrorOutput
    /\ exitCode' = 1

\* the catch block of deployDNS (lines 267-270)
Fail ==
    /\ pc' = "failed"
    /\ output' = ErrorOutput
    /\ exitCode' = 1

\* mutant: a failed listing request is taken for an empty zone
ListingThrows_Fallback(ok) == FALSE

\* cloudflareRequest (lines 62-67) throws when the provider does not answer
\* success; getExistingRecords (lines 75-79) does not catch it
ListingThrows(ok) == ~ok

\* deployDNS up to the loops (lines 188-226); the listing request may fail
Begin ==
    /\ runs' = runs + 1
    /\ clock' = clock + 1
    /\ history' = IF pc = "idle" THEN history ELSE <<Snapshot>>
    /\ calls' = <<>>
    /\ created' = 0
    /\ updated' = 0
    /\ deleted' = 0
    /\ di' = 1
    /\ ei' = 1
    /\ inputs' = [files |-> files, reserved |-> reserved]
    /\ domainFiles' = getDomainFiles(loadConfig)
    /\ \E ok \in BOOLEAN :
        /\ fetched' = IF ok THEN "ok" ELSE "failed"
        /\ records' = IF ok THEN ListRecords(zone) ELSE <<>>
        /\ IF ListingThrows(ok)
           THEN /\ existingRecords' = <<>>
                /\ Fail
           ELSE /\ existingRecords' = getExistingRecords(records')
                /\ pc' = "desired"
                /\ output' = NoOutput
                /\ exitCode' = 0
    /\ UNCHANGED <<envVars, zone, nextId, validation, report, valVars>>

StartRun ==
    /\ pc \in {"idle", "done", "failed"}
    /\ runs < MaxRuns
    /\ Begin

\* one iteration of the loop over domainFiles (lines 228-248)
ProcessDesired ==
    /\ pc = "desired"
    /\ di <= Len(domainFiles)
    /\ LET domain == domainFiles[di] IN
       IF ExistingMapHas(existingRecords, domain.subdomain)
       THEN LET existing == ExistingMapGet(existingRecords, domain.subdomain) IN
            IF existing.content # domain.target
            THEN \E ok \in BOOLEAN :
                 /\ ok => CanWrite(existing.id)
                 /\ calls' = Append(calls, Call("PUT", existing.id, domain.subdomain,
                                                domain.target, ok))
                 /\ IF ok
                    THEN /\ zone' = AfterUpdate(existing.id, domain.subdomain,
                                                domain.target, domain.type)
                         /\ updated' = updated + 1
                         /\ di' = di + 1
                         /\ UNCHANGED <<pc, output, exitCode>>
                    ELSE /\ Fail
                         /\ UNCHANGED <<zone, updated, di>>
                 /\ UNCHANGED <<nextId, created>>
            ELSE /\ di' = di + 1
                 /\ UNCHANGED <<zone, nextId, created, updated, calls, pc, output,
                                exitCode>>
       ELSE \E ok \in BOOLEAN :
            /\ ok => CanCreate(domain.subdomain)
            /\ calls' = Append(calls, Call("POST", 0, domain.subdomain,
                                           domain.target, ok))
            /\ IF ok
               THEN /\ zone' = AfterCreate(domain.subdomain, domain.target, domain.type)
                    /\ nextId' = nextId + 1
                    /\ created' = created + 1
                    /\ di' = di + 1
                    /\ UNCHANGED <<pc, output, exitCode>>
               ELSE /\ Fail
                    /\ UNCHANGED <<zone, nextId, created, di>>
            /\ UNCHANGED updated
    /\ UNCHANGED <<envVars, clock, inputs, fetched, records, existingRecords, domainFiles, ei, deleted,
                   runs, history, validation, report, valVars>>

\* one iteration of the loop over existingRecords (lines 250-256)
ProcessExisting ==
    /\ pc = "desired"
    /\ di > Len(domainFiles)
    /\ ei <= Len(existingRecords)
    /\ LET record == existingRecords[ei] IN
       IF ~DesiredMapHas(domainFiles, record.name)
       THEN \E ok \in BOOLEAN :
            /\ ok => CanWrite(record.id)
            /\ calls' = Append(calls, Call("DELETE", record.id, record.name, <<>>, ok))
            /\ IF ok
               THEN /\ zone' = AfterDelete(record.id)
                    /\ deleted' = deleted + 1
                    /\ ei' = ei + 1
                    /\ UNCHANGED <<pc, output, exitCode>>
               ELSE /\ Fail
                    /\ UNCHANGED <<zone, deleted, ei>>
       ELSE /\ ei' = ei + 1
            /\ UNCHANGED <<zone, deleted, calls, pc, output, exitCode>>
    /\ UNCHANGED <<envVars, nextId, clock, inputs, fetched, records,
                   existingRecords, domainFiles, di,
                   created, updated, runs, history, validation, report, valVars>>

\* the summary (lines 258-265)
Finish ==
    /\ pc = "desired"
    /\ di > Len(domainFiles)
    /\ ei > Len(existingRecords)
    /\ pc' = "done"
    /\ output' = Summary
    /\ UNCHANGED <<envVars, zone, nextId, clock, inputs, fetched, records,
                   existingRecords, domainFiles,
                   di, ei, created, updated, deleted, calls, exitCode, runs, history,
                   validation, report, valVars>>

\* one declaration file is added, replaced or removed between two runs; a run
\* reads the directory once, so the changes since the last run act as one
Edit(validated) ==
    /\ pc \in {"done", "failed"}
    /\ runs < MaxRuns
    /\ files = inputs.files
    /\ \E l \in Labels :
       \E c \in {NoFile} \cup (IF validated THEN FileChoices(l) ELSE DeployChoices(l)) :
        /\ c # files[l]
        /\ files' = [files EXCEPT ![l] = c]
    /\ validation' = "none"
    /\ report' = NoReport
    /\ UNCHANGED <<reserved, reservedDir, zone, nextId, clock, pc, runVars, runs,
                   history, valVars>>

\* the directory changes under a deploy.js that is started by hand
EditDeclaration == Edit(FALSE)

Next ==
    \/ StartRun
    \/ ProcessDesired
    \/ ProcessExisting
    \/ Finish
    \/ EditDeclaration

Spec == Init /\ [][Next]_vars

\* node scripts/deploy.js on a zone that holds one record more than a page of
\* the listing
LargeZones ==
    { z \in { {Record(1, DOMAIN_NAME, T1, OtherComment),
                Record(2, <<"a">> \o Dot \o <<"q">>, T1, m2),
                Record(3, Fqdn(l3), T1, m3),
                Record(4, Fqdn(l4), c4, m4)} :
                 m2 \in ZoneComments, m3 \in ZoneComments, m4 \in ZoneComments,
                 c4 \in ZoneContents, l3 \in Labels, l4 \in Labels } :
        UniqueNames(z) }

\* a zone that fills the page exactly; its managed record may have another ttl
FullZones ==
    { {Record(1, DOMAIN_NAME, T1, OtherComment),
       Record(2, <<"a">> \o Dot \o <<"q">>, T1, OtherComment),
       [Record(3, Fqdn(<<"a">>), c3, ManagedComment(UserType, 1)) EXCEPT !.ttl = t3]} :
        c3 \in ZoneContents, t3 \in ZoneTtls }

InitListing == InitWith(LargeZones \cup FullZones, {{}}, FALSE)

SpecListing == InitListing /\ [][Next]_vars

(***************************************************************************)
(* The workflow validate-and-deploy.yml: job validate, then job deploy     *)
(***************************************************************************)
SmallZones == {z \in InitZones : Cardinality(z) <= 1}
ReservedDirs == { {}, {<<"b">>} }

InitPipeline == InitWith(SmallZones, ReservedDirs, TRUE)

\* job validate: node scripts/validate.js on the checked-out commit
ValidateJob ==
    /\ pc \in {"idle", "done", "failed"}
    /\ validation = "none"
    /\ report' = validateAllDomains
    /\ validation' = IF ValidateExitCode = 0 THEN "pass" ELSE "fail"
    /\ UNCHANGED <<envVars, zone, nextId, clock, pc, runVars, runs, history, valVars>>

\* mutant: job deploy started whatever job validate concluded
NeedsValidate_Always == validation \in {"pass", "fail"}

\* `needs: validate` of job deploy: the job is skipped unless validate succeeded
NeedsValidate == validation = "pass"

\* job deploy: node scripts/deploy.js
DeployJob ==
    /\ NeedsValidate
    /\ pc \in {"idle", "done", "failed"}
    /\ runs < MaxRuns
    /\ Begin

\* a push to main: the workflow starts over on the new commit (lines 3-9)
PushCommit == Edit(TRUE)

NextPipeline ==
    \/ ValidateJob
    \/ DeployJob
    \/ ProcessDesired
    \/ ProcessExisting
    \/ Finish
    \/ PushCommit

SpecPipeline == InitPipeline /\ [][NextPipeline]_vars

(***************************************************************************)
(* The validator as a process: validateAllDomains() of each script         *)
(***************************************************************************)
Scripts == {"scripts/validate.js", "unnamed/part_000", "README.md"}

RECURSIVE Repeat(_, _)
Repeat(char, count) == IF count = 0 THEN <<>> ELSE <<char>> \o Repeat(char, count - 1)

BadTarget == <<"x">>
\* a declaration whose records object holds other keys next to CNAME
DeclExtra(user, keys) == [Decl(user, GoodEmail, T1) EXCEPT !.extra = keys]
\* a declaration whose records object has no CNAME
NoCname(user) == [Decl(user, GoodEmail, T1) EXCEPT !.cname = <<>>]
\* a JSON file without an "owner" object
NoOwner == [Decl(<<>>, <<>>, T1) EXCEPT !.hasOwner = FALSE]

\* labels on both sides of every rule of the label check
LabelSamples ==
    { <<"a">>, <<"a", "-", "1">>, Repeat("a", MaxLabelLength), Constructor,
      <<"A">>, <<"a", "_">>, <<"-", "a">>, <<"a", "-">>, <<"a", "-", "-", "a">>,
      Repeat("a", MaxLabelLength + 1) }

Entry(name, content) == [name |-> name, content |-> content]

\* the first file of the directory: any sample as its name or as its owner,
\* or a.json in one of the shapes validateDomainFile tells apart
FirstFiles ==
    { Entry(n, Decl(n, GoodEmail, T1)) : n \in LabelSamples \cup {<<>>} }
    \cup { Entry(<<"a">>, Decl(u, GoodEmail, T1)) : u \in LabelSamples \cup {<<"b">>} }
    \cup { Entry(<<"a">>, c) :
             c \in { Decl(<<"a">>, BadEmail, T1), Decl(<<"a">>, GoodEmail, BadTarget),
                     DeclExtra(<<"a">>, <<(<<"A">>)>>),
                     DeclExtra(<<"a">>, <<(<<"A">>), (<<"T", "X", "T">>)>>),
                     NoRecords(<<"a">>), NoCname(<<"a">>), NoOwner, Unparsable } }
SecondFiles ==
    { Entry(<<"b">>, c) :
        c \in { Decl(<<"b">>, GoodEmail, T1), Decl(<<"a">>, GoodEmail, T1),
                Decl(Constructor, GoodEmail, T1), Unparsable,
                DeclExtra(<<"b">>, <<(<<"A">>)>>) } }
ThirdFiles ==
    { Entry(<<"c">>, c) :
        c \in { Decl(<<"c">>, GoodEmail, T1), Decl(<<"a">>, GoodEmail, T1),
                Decl(Constructor, GoodEmail, T1) } }
\* no file, or one of the set
Optional(choices) == {<<>>} \cup { <<e>> : e \in choices }

InitValidate ==
    /\ files = [label \in Labels |-> NoFile]
    /\ reserved \in ReservedLists
    /\ reservedDir \in { {}, {<<"a">>} }
    /\ zone = {}
    /\ nextId = 1
    /\ clock = 1
    /\ pc = "idle"
    /\ inputs = [files |-> files, reserved |-> reserved]
    /\ fetched = "none"
    /\ records = <<>>
    /\ existingRecords = <<>>
    /\ domainFiles = <<>>
    /\ di = 1
    /\ ei = 1
    /\ created = 0
    /\ updated = 0
    /\ deleted = 0
    /\ calls = <<>>
    /\ output = NoOutput
    /\ exitCode = 0
    /\ runs = 0
    /\ history = <<>>
    /\ validation = "none"
    /\ report = NoReport
    /\ script \in Scripts
    /\ \E f1 \in Optional(FirstFiles), f2 \in Optional(SecondFiles),
          f3 \in Optional(ThirdFiles) : dir = f1 \o f2 \o f3
    /\ trusted \in { <<>>, <<(<<"a">>)>> }
    /\ prAuthor \in { <<>>, <<"a">>, <<"b">> }
    /\ ValidatorNotStarted

\* loadConfig of part_000 (9-30) and README (126-147)
loadConfig_part000 == [reserved |-> reserved, trusted |-> trusted]

FilePath(name) == <<"domains/">> \o name \o <<".json">>

\* getAllDomainFiles: one object per directory entry; validate.js (192-196)
\* sets username to the file name, README (383-388) calls it subdomain
RECURSIVE DirObjects(_)
DirObjects(entries) ==
    IF entries = <<>> THEN <<>>
    ELSE <<[filePath |-> FilePath(Head(entries).name), filename |-> Head(entries).name,
            username |-> Head(entries).name]>>
         \o DirObjects(Tail(entries))

\* files.filter(f => f.data) keyed by data.owner.username, without the files
\* the forEach skips (`if (!username) return`)
RECURSIVE OwnersOf(_)
OwnersOf(entries) ==
    IF entries = <<>> THEN <<>>
    ELSE (IF Head(entries).content.parses /\ Head(entries).content.username # <<>>
          THEN <<[key |-> Head(entries).content.username,
                  filePath |-> FilePath(Head(entries).name)]>>
          ELSE <<>>)
         \o OwnersOf(Tail(entries))

\* files.filter(f => f.data) keyed by file.subdomain (`if (!subdomain) return`)
RECURSIVE SubdomainsOf(_)
SubdomainsOf(entries) ==
    IF entries = <<>> THEN <<>>
    ELSE (IF Head(entries).content.parses /\ Head(entries).name # <<>>
          THEN <<[key |-> Head(entries).name, filePath |-> FilePath(Head(entries).name)]>>
          ELSE <<>>)
         \o SubdomainsOf(Tail(entries))

\* checkForDuplicates of part_000 (122-141)
checkForDuplicates_part000(entries) == DuplicateScan(OwnersOf(entries))
\* checkForDuplicateSubdomains of README (253-272)
checkForDuplicateSubdomains(entries) == DuplicateScan(SubdomainsOf(entries))

LimitReason(who, username, count) ==
    <<who>> \o Quote(username) \o <<" has ", ToString(count)>>
    \o <<" domains but is not in trusted list (limit: 1)">>

\* mutant: every owner with more than one declaration reported, trusted or not
IsTrusted_Never(config, username) == FALSE

\* config.trusted.includes(username)
IsTrusted(config, username) == InList(config.trusted, username)

\* checkDomainLimits (part_000 93-117, README 224-248) over the owners of the
\* files with data.  userDomainCount is a {}: for a name of Object.prototype
\* `(userDomainCount[name] || 0) + 1` is a string, and `count > 1` is false.
RECURSIVE LimitScan(_, _, _, _)
LimitScan(owners, n, config, who) ==
    IF n > Len(owners) THEN <<>>
    ELSE LET username == owners[n].key
             count == Cardinality({m \in 1..Len(owners) : owners[m].key = username})
         IN (IF /\ \A m \in 1..(n - 1) : owners[m].key # username
                /\ username \notin ObjectPrototype
                /\ ~IsTrusted(config, username)
                /\ count > 1
             THEN <<[username |-> username, count |-> count,
                     reason |-> LimitReason(who, username, count)]>>
             ELSE <<>>)
            \o LimitScan(owners, n + 1, config, who)

checkDomainLimits(entries, config, who) == LimitScan(OwnersOf(entries), 1, config, who)

\* mutant: the requester check applied to the first file of the directory only
FileErrors_FirstFileOnly(n) ==
    IF script = "scripts/validate.js"
    THEN validateDomainFile(dir[n].content, dir[n].name)
    ELSE IF script = "unnamed/part_000"
    THEN validateDomainFile_part000(dir[n].content, dir[n].name, loadConfig_part000)
    ELSE validateDomainFile_README(dir[n].content, dir[n].name, loadConfig_part000,
                                   IF n = 1 THEN prAuthor ELSE <<>>)

\* validateDomainFile of the running script, for the n-th file of the directory
FileErrors(n) ==
    IF script = "scripts/validate.js"
    THEN validateDomainFile(dir[n].content, dir[n].name)
    ELSE IF script = "unnamed/part_000"
    THEN validateDomainFile_part000(dir[n].content, dir[n].name, loadConfig_part000)
    ELSE validateDomainFile_README(dir[n].content, dir[n].name, loadConfig_part000,
                                   prAuthor)

\* files.filter(f => f.data): file.data is what validateDomainFile returned
RECURSIVE WithData(_)
WithData(n) ==
    IF n = 0 THEN <<>>
    ELSE WithData(n - 1)
         \o (IF n <= Len(results) /\ results[n].data THEN <<dir[n]>> ELSE <<>>)

valOther == <<script, dir, trusted, prAuthor>>
deployVars == <<files, reserved, reservedDir, zone, nextId, clock, pc, runVars, runs, history,
                validation, report>>

\* validateAllDomains up to the first check (validate.js 204-212, part_000
\* 258-273, README 396-418): an empty directory returns at once
StartValidation ==
    /\ vpc = "start"
    /\ vpc' = IF dir = <<>> THEN "exited"
              ELSE IF script = "scripts/validate.js" THEN "duplicates" ELSE "files"
    /\ UNCHANGED <<deployVars, valOther, fi, results, foundDuplicates, limitViolations,
                   hasErrors, validCount, stages, validateExit>>

\* mutant: a file that does not parse ends the loop
AfterFile_AbortOnParseError(n) ==
    IF n = Len(dir) \/ ~dir[n].content.parses
    THEN (IF script = "scripts/validate.js" THEN "summary" ELSE "duplicates")
    ELSE "files"

\* files.forEach: the callback returns and the next file follows
AfterFile(n) ==
    IF n = Len(dir)
    THEN (IF script = "scripts/validate.js" THEN "summary" ELSE "duplicates")
    ELSE "files"

\* one call of the files.forEach callback (validate.js 229-243, part_000
\* 279-294, README 424-439)
ValidateFile ==
    /\ vpc = "files"
    /\ fi <= Len(dir)
    /\ LET errors == FileErrors(fi) IN
        /\ results' = Append(results, [success |-> errors = <<>>, errors |-> errors,
                                       data |-> dir[fi].content.parses])
        /\ validCount' = IF errors = <<>> THEN validCount + 1 ELSE validCount
        /\ hasErrors' = (hasErrors \/ errors # <<>>)
    /\ fi' = fi + 1
    /\ stages' = Append(stages, "file")
    /\ vpc' = AfterFile(fi)
    /\ UNCHANGED <<deployVars, valOther, foundDuplicates, limitViolations, validateExit>>

\* the duplicate check: before the files in validate.js (215-225), after them
\* in part_000 (297-306) and README (442-451)
CheckDuplicates ==
    /\ vpc = "duplicates"
    /\ foundDuplicates' =
           IF script = "scripts/validate.js" THEN checkForDuplicates(DirObjects(dir))
           ELSE IF script = "unnamed/part_000"
           THEN checkForDuplicates_part000(WithData(Len(dir)))
           ELSE checkForDuplicateSubdomains(WithData(Len(dir)))
    /\ hasErrors' = (hasErrors \/ Len(foundDuplicates') > 0)
    /\ stages' = Append(stages, "duplicates")
    /\ vpc' = IF script = "scripts/validate.js" THEN "files" ELSE "limits"
    /\ UNCHANGED <<deployVars, valOther, fi, results, limitViolations, validCount,
                   validateExit>>

\* the quota check (part_000 309-317, README 454-462); validate.js has none
CheckLimits ==
    /\ vpc = "limits"
    /\ limitViolations' =
           checkDomainLimits(WithData(Len(dir)), loadConfig_part000,
                             IF script = "README.md" THEN "GitHub user " ELSE "User ")
    /\ hasErrors' = (hasErrors \/ Len(limitViolations') > 0)
    /\ stages' = Append(stages, "limits")
    /\ vpc' = "summary"
    /\ UNCHANGED <<deployVars, valOther, fi, results, foundDuplicates, validCount,
                   validateExit>>

\* mutant: the process ends with code 0 whatever was found
ExitStatus_AlwaysZero(errorsFound) == 0

\* process.exit(1) if hasErrors, else the process ends with code 0
ExitStatus(errorsFound) == IF errorsFound THEN 1 ELSE 0

\* the summary and the exit (validate.js 245-256, part_000 319-331, README 464-476)
ExitValidation ==
    /\ vpc = "summary"
    /\ validateExit' = ExitStatus(hasErrors)
    /\ vpc' = "exited"
    /\ UNCHANGED <<deployVars, valOther, fi, results, foundDuplicates, limitViolations,
                   hasErrors, validCount, stages>>

NextValidate ==
    \/ StartValidation
    \/ ValidateFile
    \/ CheckDuplicates
    \/ CheckLimits
    \/ ExitValidation

SpecValidate == InitValidate /\ [][NextValidate]_vars

(***************************************************************************)
(* Properties                                                              *)
(***************************************************************************)
Tagged(r) == Includes(r.comment, Marker)
Managed(r) == Tagged(r) /\ EndsWith(r.name, Dot \o DOMAIN_NAME) /\ r.name # DOMAIN_NAME
CallIndexes == 1..Len(calls)
DesiredIndexes == 1..Len(domainFiles)
\* the run ended in the catch block because a write call was rejected
WriteFailed == pc = "failed" /\ calls # <<>>
\* the run ended in the catch block because the listing request failed
FetchFailed == fetched = "failed"
HasPrevious == history # <<>>
Previous == history[Len(history)]
SameDeclarations ==
    Previous.files = inputs.files /\ Previous.reserved = inputs.reserved
\* the managed records equal the desired set
ZoneMatchesDesired ==
    /\ \A n \in DesiredIndexes :
        \E r \in zone : /\ Managed(r)
                        /\ r.name = domainFiles[n].subdomain
                        /\ r.content = domainFiles[n].target
    /\ \A r \in zone :
        Managed(r) => \E n \in DesiredIndexes : domainFiles[n].subdomain = r.name

\* C1: no update (PUT) and no delete call is ever issued for a provider
\* record whose comment lacks the ownership marker; the log entry records
\* whether the record addressed by the call carried the marker when the call
\* was issued.
C1_NoWriteToUntagged ==
    \A k \in CallIndexes : calls[k].op \in {"PUT", "DELETE"} => calls[k].tagged

\* C1 witness: a run has completed with a successful update or delete while
\* the zone holds an untagged record under the domain that no declaration
\* names (a tagged record of that name would have been deleted).
C1_Witness ==
    /\ pc = "done"
    /\ \E k \in CallIndexes : calls[k].op \in {"PUT", "DELETE"} /\ calls[k].ok
    /\ \E r \in zone :
        /\ ~Tagged(r)
        /\ EndsWith(r.name, Dot \o DOMAIN_NAME)
        /\ r.name # DOMAIN_NAME
        /\ \A n \in DesiredIndexes : domainFiles[n].subdomain # r.name

\* C2: after a run that completed with every call succeeding, a second run
\* on the same declaration files and reserved list issues no create, update
\* or delete call and classifies every desired entry as unchanged.
C2_Idempotent ==
    (HasPrevious /\ Previous.output.kind = "summary" /\ SameDeclarations
        /\ pc \in {"desired", "done", "failed"})
    => /\ calls = <<>>
       /\ pc = "done" => output.unchanged = Len(domainFiles)

\* C3: after a run in which every provider call succeeded, every desired
\* name has a managed record with its declared target and no managed record
\* remains for a name outside the desired set.
C3_Converged == pc = "done" => ZoneMatchesDesired

\* the desired entry at position n needs a create or an update, judged
\* against the records the run fetched
NeedsWrite(n) ==
    \/ \A m \in 1..Len(existingRecords) :
          existingRecords[m].name # domainFiles[n].subdomain
    \/ \E m \in 1..Len(existingRecords) :
          /\ existingRecords[m].name = domainFiles[n].subdomain
          /\ existingRecords[m].content # domainFiles[n].target
\* the fetched record at position m is named by no desired entry
Orphan(m) ==
    \A n \in DesiredIndexes : domainFiles[n].subdomain # existingRecords[m].name
OkCalls(op) == {k \in CallIndexes : calls[k].op = op /\ calls[k].ok}

C6_RerunConverges ==
    (HasPrevious /\ Previous.exitCode = 1 /\ Previous.calls # <<>>
        /\ SameDeclarations /\ pc = "done")
    => ZoneMatchesDesired

\* the desired entry at position n has the name of a listed record that
\* lacks the ownership marker
Collides(n) ==
    \E m \in 1..Len(records) :
        ~Tagged(records[m]) /\ records[m].name = domainFiles[n].subdomain

\* C7: a provider record with the name of a desired entry but without the
\* marker is absent from the actual-state map; the call the run issues for
\* that name is a create, never an update or a delete, and the run cannot
\* pass the entry without it; when the provider rejects the create the run
\* ends as failed and the untagged record is still in the zone as listed.
C7_UntaggedCollision ==
    \A n \in DesiredIndexes :
        Collides(n) =>
            /\ \A m \in 1..Len(existingRecords) :
                existingRecords[m].name # domainFiles[n].subdomain
            /\ \A k \in CallIndexes :
                calls[k].name = domainFiles[n].subdomain => calls[k].op = "POST"
            /\ n < di =>
                \E k \in CallIndexes : /\ calls[k].op = "POST"
                                        /\ calls[k].name = domainFiles[n].subdomain
                                        /\ calls[k].content = domainFiles[n].target
            /\ (WriteFailed /\ n = di) =>
                /\ calls[Len(calls)].op = "POST"
                /\ calls[Len(calls)].name = domainFiles[n].subdomain
                /\ calls[Len(calls)].content = domainFiles[n].target
                /\ exitCode = 1
            /\ \A m \in 1..Len(records) :
                (~Tagged(records[m]) /\ records[m].name = domainFiles[n].subdomain)
                    => records[m] \in zone

\* C7 witness: the run reached a desired entry whose name an untagged record
\* holds, after an earlier call had succeeded; the create was rejected and
\* the run failed.
C7_Witness ==
    /\ WriteFailed
    /\ di <= Len(domainFiles)
    /\ Collides(di)
    /\ Len(calls) >= 2
    /\ calls[Len(calls)].op = "POST"

\* the run reconciles exactly one declaration, of the file `label`
OnlyDeclaration(desired, label) ==
    /\ Len(desired) = 1
    /\ desired[1].type = UserType
    /\ desired[1].username = label

\* C8: one declaration (label L, target T) reconciled against an empty
\* managed state produces exactly one create call, with name L.<zone> and
\* content T, and no other write; a later run in which that record exists
\* and the declared target is another one produces exactly one update call,
\* on the same record id with the new content, and no create or delete.
C8_RoundTrip ==
    \A label \in Labels :
        /\ (pc \in {"done", "failed"} /\ ~FetchFailed
                /\ OnlyDeclaration(domainFiles, label) /\ existingRecords = <<>>)
           => /\ Len(calls) = 1
              /\ calls[1].op = "POST"
              /\ calls[1].name = label \o <<".">> \o DOMAIN_NAME
              /\ calls[1].content = inputs.files[label].cname
        /\ (pc \in {"done", "failed"} /\ ~FetchFailed /\ HasPrevious
                /\ OnlyDeclaration(domainFiles, label)
                /\ OnlyDeclaration(Previous.desired, label)
                /\ Previous.existing = <<>>
                /\ Previous.output.kind = "summary"
                /\ inputs.files[label].cname # Previous.files[label].cname)
           => /\ Len(calls) = 1
              /\ calls[1].op = "PUT"
              /\ \E r \in Previous.zone :
                    /\ r.name = label \o <<".">> \o DOMAIN_NAME
                    /\ r.content = Previous.files[label].cname
                    /\ calls[1].id = r.id
              /\ calls[1].content = inputs.files[label].cname

\* C8 witness: the second run of the round trip has completed with its
\* update applied.
C8_Witness ==
    \E label \in Labels :
        /\ pc = "done"
        /\ HasPrevious
        /\ OnlyDeclaration(domainFiles, label)
        /\ OnlyDeclaration(Previous.desired, label)
        /\ Previous.existing = <<>>
        /\ Previous.output.kind = "summary"
        /\ inputs.files[label].cname # Previous.files[label].cname
        /\ calls[1].ok

ReportedClean ==
    /\ validation = "pass"
    /\ report.files = inputs.files
    /\ report.duplicates = <<>>
    /\ \A label \in Labels : report.errors[label] = <<>>

\* C10: the reconciler issues create, update or delete calls only for a
\* declaration set on which the validation pass reported no per-file and no
\* cross-file diagnostic: while a run is issuing calls the validate job has
\* passed on the set the run read, and no file of a set for which a call
\* was issued breaks a rule of validateDomainFile.
C10_OnlyValidatedSets ==
    /\ pc = "desired" => ReportedClean
    /\ calls # <<>> =>
        \A label \in Labels :
            inputs.files[label].exists =>
                validateDomainFile(inputs.files[label], label) = <<>>

\* C10 witness: the deploy job is issuing write calls for a declaration set
\* that job validate passed, pushed after an earlier run of the workflow.
C10_Witness ==
    /\ pc = "desired"
    /\ calls # <<>>
    /\ ReportedClean
    /\ HasPrevious
    /\ Previous.files # inputs.files
    /\ \E label \in Labels : inputs.files[label].exists

\* C11: when the listing request of a run fails, the run issues no create,
\* update or delete call, ends in the catch block and exits with code 1.
C11_FetchFailureNoWrites ==
    FetchFailed =>
        /\ calls = <<>>
        /\ pc = "failed"
        /\ output = ErrorOutput
        /\ exitCode = 1

\* C11 witness: the listing failed in a run that had entries to create and a
\* managed record to delete.
C11_Witness ==
    /\ FetchFailed
    /\ exitCode = 1
    /\ calls = <<>>
    /\ \E n \in DesiredIndexes : \A r \in zone : r.name # domainFiles[n].subdomain
    /\ \E r \in zone : Managed(r) /\ ~DesiredMapHas(domainFiles, r.name)

(***************************************************************************)
(* Properties of the validator                                             *)
(***************************************************************************)
Exited == vpc = "exited"
FileIndexes == 1..Len(dir)
Validated(n) == n <= Len(results)
HasError(n, message) == \E k \in 1..Len(results[n].errors) : results[n].errors[k] = message
\* the n-th file parses and names an owner
Owner(n) == dir[n].content.username
HasOwner(n) ==
    dir[n].content.parses /\ dir[n].content.hasOwner /\ Owner(n) # <<>>
Passed == Exited /\ validateExit = 0

\* C12: when a requester identity is supplied, every declaration whose
\* owner.username differs from it gets the security diagnostic and fails, and
\* a pass that succeeds holds no declaration of another identity.
C12_RequesterIdentity ==
    (Exited /\ prAuthor # <<>>) =>
        \A n \in FileIndexes :
            (HasOwner(n) /\ Owner(n) # prAuthor) =>
                /\ Validated(n)
                /\ HasError(n, SecurityViolation(Owner(n), prAuthor))
                /\ ~results[n].success
                /\ ~Passed

StageDone(stage) == \E k \in 1..Len(stages) : stages[k] = stage
\* the declarations of the batch that name `username` as their owner
DeclarationsOf(username) == {n \in FileIndexes : HasOwner(n) /\ Owner(n) = username}
OwnersInBatch == {Owner(n) : n \in {m \in FileIndexes : HasOwner(m)}}
ViolationsOf(username) ==
    {k \in 1..Len(limitViolations) : limitViolations[k].username = username}

\* C13: the quota check reports an owner exactly when the owner is not in the
\* trusted list and has N > 1 declarations in the batch; the violation names
\* the owner and carries the count N; a trusted owner is never reported.
C13_QuotaExact ==
    StageDone("limits") =>
        \A username \in OwnersInBatch :
            LET count == Cardinality(DeclarationsOf(username)) IN
            /\ (ViolationsOf(username) # {})
                   <=> (~InList(trusted, username) /\ count > 1)
            /\ \A k \in ViolationsOf(username) :
                /\ limitViolations[k].count = count
                /\ Includes(limitViolations[k].reason, Quote(username))
                /\ Includes(limitViolations[k].reason, <<ToString(count)>>)

\* the label the n-th file declares, as the duplicate check of the running
\* script reads it: the file name, or owner.username in part_000
DeclaresLabel(n, label) ==
    IF script = "scripts/validate.js" THEN dir[n].name = label
    ELSE IF script = "unnamed/part_000" THEN HasOwner(n) /\ Owner(n) = label
    ELSE dir[n].content.parses /\ dir[n].name = label
DuplicatesOf(label) ==
    {k \in 1..Len(foundDuplicates) : foundDuplicates[k].username = label}

\* C14: when two files of the batch declare the same label, the validator
\* reports exactly one duplicate diagnostic for that label, and it names the
\* paths of both files.
C14_OneDuplicateDiagnostic ==
    StageDone("duplicates") =>
        \A n1, n2 \in FileIndexes :
            \A label \in LabelSamples \cup {<<"b">>, <<"c">>} :
                (/\ n1 < n2
                 /\ {n \in FileIndexes : DeclaresLabel(n, label)} = {n1, n2})
                => /\ Cardinality(DuplicatesOf(label)) = 1
                   /\ \A k \in DuplicatesOf(label) :
                        foundDuplicates[k].files
                            = <<FilePath(dir[n1].name), FilePath(dir[n2].name)>>

\* the rules of the label check, stated on the label
CharsetReason == "must be lowercase, alphanumeric, and may include hyphens only"
EdgeReason == "cannot start or end with hyphen"
DoubleReason == "cannot contain consecutive hyphens"
LengthReason == "must be between 1 and 63 characters"
ReservedReason == "is a reserved username"
\* the reasons of the rules a label breaks; the empty label breaks the
\* character rule too, which asks for one character or more
ReasonsBroken(label) ==
    (IF label = <<>> \/ \E n \in 1..Len(label) :
                            label[n] \notin LowerCase \cup Digits \cup {"-"}
     THEN {CharsetReason} ELSE {})
    \cup (IF label # <<>> /\ (Head(label) = "-" \/ label[Len(label)] = "-")
          THEN {EdgeReason} ELSE {})
    \cup (IF \E n \in 1..(Len(label) - 1) : label[n] = "-" /\ label[n + 1] = "-"
          THEN {DoubleReason} ELSE {})
    \cup (IF Len(label) = 0 \/ Len(label) > 63 THEN {LengthReason} ELSE {})
WellFormed(label) == ReasonsBroken(label) = {}

\* the label the label check of the running script is applied to in file n
LabelChecked(n) ==
    IF script = "README.md" THEN dir[n].content.parses ELSE HasOwner(n)
TheLabel(n) == IF script = "README.md" THEN dir[n].name ELSE Owner(n)
LabelDiagnostic(n, reason) ==
    IF script = "README.md" THEN HasError(n, InvalidSubdomain(TheLabel(n), reason))
    ELSE HasError(n, InvalidUsername(TheLabel(n), reason))
LabelAccepted(n) ==
    \A reason \in {CharsetReason, EdgeReason, DoubleReason, LengthReason, ReservedReason} :
        ~LabelDiagnostic(n, reason)

\* C15 as claimed: the label check accepts every well-formed label and rejects
\* every other label with the reason of a rule that label breaks.
C15_LabelCheck ==
    \A n \in FileIndexes :
        (Validated(n) /\ LabelChecked(n)) =>
            IF WellFormed(TheLabel(n)) THEN LabelAccepted(n)
            ELSE \E reason \in ReasonsBroken(TheLabel(n)) : LabelDiagnostic(n, reason)

\* the label check of scripts/validate.js also looks the label up in the
\* folder domains/reserved/
ReservedByLabelCheck(n) ==
    script = "scripts/validate.js" /\ TheLabel(n) \in reservedDir

\* C15 amended: the label check accepts every well-formed label that is not
\* reserved, rejects a well-formed reserved label as reserved, and rejects
\* every other label with the reason of a rule that label breaks.
C15_LabelCheckUnlessReserved ==
    \A n \in FileIndexes :
        (Validated(n) /\ LabelChecked(n)) =>
            IF ~WellFormed(TheLabel(n))
            THEN \E reason \in ReasonsBroken(TheLabel(n)) : LabelDiagnostic(n, reason)
            ELSE IF ReservedByLabelCheck(n) THEN LabelDiagnostic(n, ReservedReason)
            ELSE LabelAccepted(n)

\* C15 witness: scripts/validate.js has rejected a label of 64 characters for
\* its length and a label with a leading hyphen, and accepted the next file's.
C15_Witness ==
    /\ script = "scripts/validate.js"
    /\ Exited
    /\ Len(dir) >= 2
    /\ LabelChecked(1) /\ LabelChecked(2)
    /\ \/ Len(TheLabel(1)) = 64 /\ LabelDiagnostic(1, LengthReason)
       \/ Head(TheLabel(1)) = "-" /\ LabelDiagnostic(1, EdgeReason)
    /\ WellFormed(TheLabel(2)) /\ LabelAccepted(2)

\* a diagnostic of file n saying that `label` is reserved, in the words of
\* any of the scripts
SaysReserved(n, label) ==
    \/ HasError(n, InvalidUsername(label, ReservedReason))
    \/ HasError(n, UsernameReserved(label))
    \/ HasError(n, SubdomainReserved(label))

\* C16: every declaration whose label is in the reserved-name list
\* config/reserved.json fails per-file validation with a diagnostic saying
\* that the label is reserved.  Stated for the declarations whose file name
\* and owner.username agree, so that every script reads the same label.
C16_ReservedLabelRejected ==
    \A n \in FileIndexes :
        (/\ Validated(n)
         /\ HasOwner(n)
         /\ Owner(n) = dir[n].name
         /\ InList(reserved, dir[n].name))
        => /\ ~results[n].success
           /\ SaysReserved(n, dir[n].name)

\* file n has no diagnostic of the records rule
RecordsRulePassed(n) ==
    /\ ~HasError(n, MissingRecords)
    /\ ~HasError(n, MissingCname)
    /\ ~HasError(n, InvalidCname(dir[n].content.cname))
    /\ ~HasError(n, OnlyCname(dir[n].content.extra))
ExtraKeys(n) == {dir[n].content.extra[k] : k \in 1..Len(dir[n].content.extra)}

\* C17: a declaration passes the records rule only if its records object
\* holds exactly the key CNAME with a valid target; every additional key makes
\* the declaration fail and is named in a diagnostic.
C17_RecordsRule ==
    \A n \in FileIndexes :
        (Validated(n) /\ dir[n].content.parses) =>
            /\ RecordsRulePassed(n) =>
                /\ dir[n].content.hasRecords
                /\ dir[n].content.cname # <<>>
                /\ isValidDomain(dir[n].content.cname)
                /\ ExtraKeys(n) = {}
            /\ \A key \in ExtraKeys(n) :
                /\ ~results[n].success
                /\ \E k \in 1..Len(results[n].errors) : Includes(results[n].errors[k], key)

\* C18: a file that does not parse yields exactly one diagnostic, the parse
\* failure, and no other per-file check; the loop goes on, so that every file
\* of the batch has its result when the pass ends.
C18_ParseFailureLocal ==
    /\ \A n \in FileIndexes :
        (Validated(n) /\ ~dir[n].content.parses) =>
            /\ results[n].errors = <<InvalidJson>>
            /\ ~results[n].success
    /\ Exited => /\ Len(results) = Len(dir)
                 /\ \A n \in FileIndexes : results[n].errors = FileErrors(n)

\* C18 witness: the pass has ended; its first file did not parse and the file
\* after it was validated and accepted.
C18_Witness ==
    /\ Exited
    /\ Len(dir) >= 2
    /\ ~dir[1].content.parses
    /\ results[1].errors = <<InvalidJson>>
    /\ Validated(2)
    /\ results[2].success

\* some diagnostic of the pass exists: of a file, of the duplicate check or of
\* the quota check
PerFileDiagnostic == \E n \in 1..Len(results) : results[n].errors # <<>>
CrossFileDiagnostic == Len(foundDuplicates) > 0 \/ Len(limitViolations) > 0
AllEvaluated ==
    /\ Len(results) = Len(dir)
    /\ StageDone("duplicates")
    /\ StageDone("limits")

\* C19: a validation pass over a batch of files ends non-zero exactly when a
\* per-file or a cross-file diagnostic (duplicate, quota) exists, and it ends
\* only after every file, the duplicate check and the quota check were
\* evaluated.
C19_ExitPolicy ==
    (Exited /\ dir # <<>>) =>
        /\ (validateExit # 0) <=> (PerFileDiagnostic \/ CrossFileDiagnostic)
        /\ AllEvaluated

\* the validators of the stricter mode, where the file name must be the
\* owner's username (validate.js 132-137, part_000 175-178)
StricterMode == script \in {"scripts/validate.js", "unnamed/part_000"}
NamesDiffer(n) == HasOwner(n) /\ Owner(n) # dir[n].name

C21_OneWritePerName ==
    \A i, j \in 1..Len(calls) : i # j => calls[i].name # calls[j].name

DistinctNames(domains) ==
    \A i, j \in 1..Len(domains) : i # j => domains[i].subdomain # domains[j].subdomain

\* C22: when the validation run has passed on the declaration set, the
\* desired list deploy.js builds from the reserved list and the files has
\* pairwise distinct fully-qualified names, and no file bears a reserved name.
C22_DesiredNamesUnique ==
    validation = "pass" =>
        /\ DistinctNames(getDomainFiles(loadConfig))
        /\ \A l \in Labels : files[l].exists => ~InList(reserved, l)

\* the records the run looks at: what getExistingRecords returned, as a set
Returned == {existingRecords[n] : n \in 1..Len(existingRecords)}
\* the listing was answered and no write call has changed the zone since
JustFetched == fetched = "ok" /\ pc = "desired" /\ calls = <<>>

\* C23: getExistingRecords returns exactly the records of the zone whose name
\* ends with ".<domain>", is not the apex, and whose comment contains the
\* marker: all of them, whatever the size of the zone, and no other record.
C23_ManagedSetExact ==
    JustFetched =>
        Returned = { r \in zone :
                       /\ EndsWith(r.name, Dot \o DOMAIN_NAME)
                       /\ r.name # DOMAIN_NAME
                       /\ Includes(r.comment, Marker) }

\* the write call a step of the run has just issued and the provider accepted
Accepted(op) ==
    /\ Len(calls') = Len(calls) + 1
    /\ calls'[Len(calls')].op = op
    /\ calls'[Len(calls')].ok
\* a record carrying the comment of a create or update of one of the runs
WrittenByRun(r) ==
    \E type \in {UserType, ReservedType}, time \in 2..Len(Digit) :
        r.comment = ManagedComment(type, time)

\* C24: after an accepted create or update the record of that name carries
\* the marker; an update keeps the record's id and changes nothing but its
\* content and comment; and every later fetch returns the records the runs
\* created or updated.
C24_WrittenRecordsManaged ==
    [][ /\ (Accepted("POST") \/ Accepted("PUT")) =>
            \E r \in zone' :
                /\ r.name = calls'[Len(calls')].name
                /\ r.content = calls'[Len(calls')].content
                /\ Includes(r.comment, Marker)
        /\ Accepted("PUT") =>
            \E old \in zone, new \in zone' :
                /\ old.id = calls'[Len(calls')].id
                /\ new.id = old.id
                /\ [new EXCEPT !.content = old.content, !.comment = old.comment] = old
                /\ zone' \ {new} = zone \ {old}
        /\ (runs' = runs + 1 /\ fetched' = "ok") =>
            \A r \in zone : WrittenByRun(r) =>
                \E n \in 1..Len(existingRecords') : existingRecords'[n] = r
      ]_vars

\* the validator that reads the requester identity from the environment
\* (README 401) was started with one
RequesterPresent == script = "README.md" /\ prAuthor # <<>>

Unprocessable(label) ==
    /\ pc # "idle"
    /\ inputs.files[label].exists
    /\ ~inputs.files[label].parses \/ ~inputs.files[label].hasRecords
\* the console.warn lines of the run (deploy.js 121-124), one per such file
Warnings == {label \in Labels : Unprocessable(label)}
WritesFor(label) ==
    {n \in 1..Len(calls) : calls[n].op \in {"POST", "PUT"} /\ calls[n].name = Fqdn(label)}
DeletedAsOrphan(record) ==
    \E n \in 1..Len(calls) :
        calls[n].op = "DELETE" /\ calls[n].id = record.id /\ calls[n].ok
FetchedFor(label) ==
    {existingRecords[n] : n \in {k \in 1..Len(existingRecords) :
                                    existingRecords[k].name = Fqdn(label)}}

\* C26 as stated: a file that cannot be processed leads to no create or update
\* for its label, and when the run has ended the managed record of that label
\* has been deleted.
C26_UnprocessableOrphaned ==
    \A label \in Labels :
        Unprocessable(label) =>
            /\ WritesFor(label) = {}
            /\ pc \in {"done", "failed"} =>
                   \A record \in FetchedFor(label) : DeletedAsOrphan(record)

\* C26, amended: such a file contributes no desired entry and does not end the
\* run, which fails only on a provider call; unless the reserved list names
\* the label no create or update is issued for it, and a run that reaches its
\* summary has deleted every fetched record of that label.
C26_UnprocessableSkipped ==
    \A label \in Labels :
        Unprocessable(label) =>
            /\ label \in Warnings
            /\ \A n \in 1..Len(domainFiles) :
                   domainFiles[n].username = label => domainFiles[n].type = ReservedType
            /\ pc = "failed" =>
                   (FetchFailed \/ (calls # <<>> /\ ~calls[Len(calls)].ok))
            /\ ~InList(inputs.reserved, label) =>
                   /\ WritesFor(label) = {}
                   /\ pc = "done" =>
                          \A record \in FetchedFor(label) : DeletedAsOrphan(record)

\* C26 witness: a run has reached its summary; a.json did not parse, a is not
\* reserved, the managed record a.z was deleted and the entry of b.json was
\* created after the warning.
C26_Witness ==
    /\ pc = "done"
    /\ Unprocessable(<<"a">>)
    /\ ~inputs.files[<<"a">>].parses
    /\ ~InList(inputs.reserved, <<"a">>)
    /\ FetchedFor(<<"a">>) # {}
    /\ \A record \in FetchedFor(<<"a">>) : DeletedAsOrphan(record)
    /\ \E n \in 1..Len(calls) :
           calls[n].op = "POST" /\ calls[n].name = Fqdn(<<"b">>) /\ calls[n].ok

====
